---- MODULE Spec2Model ----
(***************************************************************************)
(* Model of the axial-map cleaning pipeline of src/image_cleaning.py:      *)
(* clean_axial_map (dark-mask inpainting, component repair, highlight      *)
(* correction, final clip) and standardize_image (contour search, crop,    *)
(* resize, circular mask).                                                 *)
(*                                                                         *)
(* An image is a record [h, w, px] with px a function from the pixel       *)
(* coordinates <<y, x>> (0-based, row first, as numpy indexes them) to a   *)
(* colour <<b, g, r>> of 8-bit channels.  A single-channel mask is the set *)
(* of coordinates where it is 255.                                         *)
(***************************************************************************)
EXTENDS Integers, Sequences, FiniteSets, TLC

Min2(a, b) == IF a <= b THEN a ELSE b

Max2(a, b) == IF a >= b THEN a ELSE b

Clamp(v, lo, hi) == Max2(lo, Min2(v, hi))

Pixels(h, w) == (0 .. h - 1) \X (0 .. w - 1)

\* f itself, held as a table of its values rather than as a rule to re-evaluate
Table(f) == f @@ <<>>

\* img.shape[:2] of an empty slice has a zero dimension
IsEmpty(im) == im.h <= 0 \/ im.w <= 0

MinOf(S) == CHOOSE v \in S : \A u \in S : v <= u

MaxOf(S) == CHOOSE v \in S : \A u \in S : v >= u

Chan == 1 .. 3

RECURSIVE SumOver(_, _, _)
SumOver(F(_), lo, hi) == IF lo > hi THEN 0 ELSE F(lo) + SumOver(F, lo + 1, hi)

(***************************************************************************)
(* Colour conversions of OpenCV for 8-bit images.                          *)
(***************************************************************************)
\* cv.COLOR_BGR2GRAY: fixed-point 0.114 B + 0.587 G + 0.299 R, rounded
BGR2GRAY(c) == (1868 * c[1] + 9617 * c[2] + 4899 * c[3] + 8192) \div 16384

\* cv.COLOR_BGR2HSV: V = max, S = 255 (V - min) / V, H in 0 .. 179
BGR2HSV(c) ==
    LET v  == Max2(c[1], Max2(c[2], c[3]))
        mn == Min2(c[1], Min2(c[2], c[3]))
        d  == v - mn
        s  == IF v = 0 THEN 0 ELSE (255 * d + v \div 2) \div v
        hd == IF d = 0 THEN 0
              ELSE IF v = c[3] THEN (60 * (c[2] - c[1])) \div d
              ELSE IF v = c[2] THEN 120 + (60 * (c[1] - c[3])) \div d
              ELSE 240 + (60 * (c[3] - c[2])) \div d
        hh == IF hd < 0 THEN hd + 360 ELSE hd
    IN  <<(hh \div 2) % 180, s, v>>

\* cv.inRange(hsv, lo, hi): the pixels whose three HSV channels all lie in range
inRange(im, lo, hi) ==
    {p \in Pixels(im.h, im.w) :
        LET q == BGR2HSV(im.px[p])
        IN  \A k \in Chan : lo[k] <= q[k] /\ q[k] <= hi[k]}

(***************************************************************************)
(* cv.medianBlur(img, ksize): per channel, the median of the ksize x ksize *)
(* window around the pixel, the image border replicated.                   *)
(***************************************************************************)
MedianKernel == 23

\* how many of the window's offsets land on source index s along one axis
AxisWeight(t, s, len) ==
    Cardinality({d \in -(MedianKernel \div 2) .. MedianKernel \div 2 : Clamp(t + d, 0, len - 1) = s})

\* The window of pixel <<y, x>> holds source <<sy, sx>> AxisWeight(y, sy, h) *
\* AxisWeight(x, sx, w) times.  rowLe[sy][x] counts the samples of source row
\* sy, once each, that are at most v; le[p] counts those of the whole window.
\* The median is the least value that at least half the samples do not exceed.
MedianChannel(im, k) ==
    LET ys   == 0 .. im.h - 1
        xs   == 0 .. im.w - 1
        wy   == Table([t \in ys |-> Table([s \in ys |-> AxisWeight(t, s, im.h)])])
        wx   == Table([t \in xs |-> Table([s \in xs |-> AxisWeight(t, s, im.w)])])
        vals == {im.px[q][k] : q \in Pixels(im.h, im.w)}
        top  == MaxOf(vals)
        half == (MedianKernel * MedianKernel) \div 2 + 1
        rowLe(v) == Table([sy \in ys |-> Table([x \in xs |->
                        SumOver(LAMBDA sx : IF im.px[<<sy, sx>>][k] <= v THEN wx[x][sx] ELSE 0, 0, im.w - 1)])])
        le(v) == LET rl == rowLe(v)
                 IN  Table([p \in Pixels(im.h, im.w) |-> SumOver(LAMBDA sy : wy[p[1]][sy] * rl[sy][p[2]], 0, im.h - 1)])
        tab  == Table([v \in vals \ {top} |-> le(v)])
    IN  [p \in Pixels(im.h, im.w) |-> MinOf({v \in vals \ {top} : tab[v][p] >= half} \cup {top})]

medianBlur(im) ==
    LET m1 == Table(MedianChannel(im, 1))
        m2 == Table(MedianChannel(im, 2))
        m3 == Table(MedianChannel(im, 3))
    IN  [im EXCEPT !.px = Table([p \in Pixels(im.h, im.w) |-> <<m1[p], m2[p], m3[p]>>])]

(***************************************************************************)
(* cv.circle(img, (cx, cy), radius, colour, -1): OpenCV's filled midpoint  *)
(* circle (drawing.cpp, Circle), clipped to the image.  The result is the  *)
(* set of pixels it paints.  A negative radius fails OpenCV's assertion;   *)
(* the callers test CircleRaises first.                                    *)
(***************************************************************************)
HLine(h, w, y, xa, xb) ==
    IF y < 0 \/ y >= h THEN {} ELSE {<<y, x>> : x \in Max2(xa, 0) .. Min2(xb, w - 1)}

RECURSIVE CircleStep(_, _, _, _, _, _, _, _, _, _)
CircleStep(h, w, cx, cy, dx, dy, err, plus, minus, acc) ==
    IF dx < dy THEN acc
    ELSE LET drawn == HLine(h, w, cy - dy, cx - dx, cx + dx)
                        \cup HLine(h, w, cy + dy, cx - dx, cx + dx)
                        \cup HLine(h, w, cy - dx, cx - dy, cx + dy)
                        \cup HLine(h, w, cy + dx, cx - dy, cx + dy)
             err1 == err + plus
             dec  == err1 > 0
         IN  CircleStep(h, w, cx, cy,
                        IF dec THEN dx - 1 ELSE dx, dy + 1,
                        IF dec THEN err1 - minus ELSE err1, plus + 2,
                        IF dec THEN minus - 2 ELSE minus, acc \cup drawn)

\* a disc drawn one pixel too wide
FilledCircleWide(h, w, cx, cy, radius) ==
    CircleStep(h, w, cx, cy, radius + 1, 0, 0, 1, 2 * radius + 1, {})

FilledCircle(h, w, cx, cy, radius) ==
    CircleStep(h, w, cx, cy, radius, 0, 0, 1, 2 * radius - 1, {})

CircleRaises(radius) == radius < 0

\* squared distance of pixel p = <<y, x>> from the centre (cx, cy)
Dist2(p, cx, cy) == (p[2] - cx) * (p[2] - cx) + (p[1] - cy) * (p[1] - cy)

(***************************************************************************)
(* np.mean(mask == 255) * 100 under Python's round(): n / d rounded to the *)
(* nearest integer, a tie going to the even one.                           *)
(***************************************************************************)
RoundHalfEven(n, d) ==
    LET q == n \div d
        r == n % d
    IN  IF 2 * r < d THEN q
        ELSE IF 2 * r > d THEN q + 1
        ELSE IF q % 2 = 0 THEN q ELSE q + 1

(***************************************************************************)
(* The colours the model's images are painted with, one per class of the   *)
(* thresholds of clean_axial_map and standardize_image.                    *)
(***************************************************************************)
Black == <<0, 0, 0>>

White == <<255, 255, 255>>

Green == <<0, 255, 0>>

Gray == <<128, 128, 128>>

Silver == <<170, 170, 170>>

Dim == <<5, 5, 5>>

Cyan == <<255, 255, 0>>

Palette == {Black, White, Green, Gray, Silver, Dim, Cyan}

\* cv.bitwise_and of an image with a mask that is 255 on the set keep
BitwiseAnd(im, keep) ==
    LET kept == keep
    IN  [im EXCEPT !.px = Table([p \in Pixels(im.h, im.w) |-> IF p \in kept THEN im.px[p] ELSE Black])]

(***************************************************************************)
(* cv.inpaint(img, mask, 3, cv.INPAINT_NS).  Pixels outside the mask are   *)
(* copied.  The fast-marching fill gives a masked pixel a non-negatively   *)
(* weighted mean of known or already filled pixels within the inpainting   *)
(* radius, so every filled value lies, channel by channel, between the     *)
(* extremes of the known pixels within that radius of the mask.  The model *)
(* draws the fill of one call from the colours in that range.  With no     *)
(* masked pixel, or no known pixel to march from, the image is unchanged.  *)
(***************************************************************************)
InpaintRadius == 3

InpaintReach ==
    {d \in (-InpaintRadius .. InpaintRadius) \X (-InpaintRadius .. InpaintRadius) :
        d[1] * d[1] + d[2] * d[2] <= InpaintRadius * InpaintRadius}

InpaintSources(im, m) ==
    {p \in Pixels(im.h, im.w) \ m : \E d \in InpaintReach : <<p[1] + d[1], p[2] + d[2]>> \in m}

FillColours(im, m) ==
    LET src  == {im.px[p] : p \in InpaintSources(im, m)}
        lo(k) == MinOf({c[k] : c \in src})
        hi(k) == MaxOf({c[k] : c \in src})
    IN  {c \in Palette \cup src : \A k \in Chan : lo(k) <= c[k] /\ c[k] <= hi(k)}

Paint(im, m, c) ==
    [im EXCEPT !.px = Table([p \in Pixels(im.h, im.w) |-> IF p \in m THEN c ELSE im.px[p]])]

inpaint(im, m) ==
    IF m = {} \/ InpaintSources(im, m) = {} THEN {im}
    ELSE {Paint(im, m, c) : c \in FillColours(im, m)}

(***************************************************************************)
(* cv.connectedComponentsWithStats(mask1, connectivity=4): the components  *)
(* in the order of their first pixel in raster scan, with the bounding box *)
(* and the pixel count of each.                                            *)
(***************************************************************************)
N4(p) == {<<p[1] - 1, p[2]>>, <<p[1] + 1, p[2]>>, <<p[1], p[2] - 1>>, <<p[1], p[2] + 1>>}

N8(p) == {<<p[1] + dy, p[2] + dx>> : dy \in -1 .. 1, dx \in -1 .. 1} \ {p}

RECURSIVE Flood(_, _, _, _)
Flood(Nb(_), m, frontier, seen) ==
    IF frontier = {} THEN seen
    ELSE LET nxt == ((UNION {Nb(p) : p \in frontier}) \cap m) \ seen
         IN  Flood(Nb, m, nxt, seen \cup nxt)

FirstInRaster(m) ==
    LET y0 == MinOf({p[1] : p \in m})
    IN  <<y0, MinOf({p[2] : p \in {q \in m : q[1] = y0}})>>

RECURSIVE Components(_, _)
Components(Nb(_), m) ==
    IF m = {} THEN <<>>
    ELSE LET p == FirstInRaster(m)
             c == Flood(Nb, m, {p}, {p})
         IN  <<c>> \o Components(Nb, m \ c)

ComponentStats(c) ==
    LET left == MinOf({p[2] : p \in c})
        top  == MinOf({p[1] : p \in c})
    IN  [left   |-> left,
         top    |-> top,
         width  |-> MaxOf({p[2] : p \in c}) - left + 1,
         height |-> MaxOf({p[1] : p \in c}) - top + 1,
         area   |-> Cardinality(c)]

connectedComponentsWithStats(m) ==
    LET cs == Components(N4, m)
    IN  [k \in 1 .. Len(cs) |-> ComponentStats(cs[k])]

(***************************************************************************)
(* cv.findContours(thresh, RETR_EXTERNAL, CHAIN_APPROX_SIMPLE): one outer  *)
(* border per 8-connected component of the non-zero pixels.  A contour is  *)
(* kept as the pixel set of its component: the border's hull, and with it  *)
(* the enclosing circle, is that of the component.                         *)
(***************************************************************************)
findContours(thresh) == Components(N8, thresh)

\* the component with the holes its outer border encloses
Filled(c, h, w) ==
    LET frame   == (-1 .. h) \X (-1 .. w)
        outside == Flood(N4, frame \ c, {<<-1, -1>>}, {<<-1, -1>>})
    IN  frame \ outside

(***************************************************************************)
(* cv.contourArea of an outer border, doubled to stay in the integers: the *)
(* border polygon runs through the pixel centres, so it encloses the unit  *)
(* cells with all four corners in the filled component and half of each    *)
(* cell with three.  A single pixel and a one-pixel-wide line measure 0.   *)
(***************************************************************************)
contourArea2(c, h, w) ==
    LET f == Filled(c, h, w)
        corners(p) == {p, <<p[1], p[2] + 1>>, <<p[1] + 1, p[2]>>, <<p[1] + 1, p[2] + 1>>}
        n(p) == Cardinality(corners(p) \cap f)
        cells == Pixels(h - 1, w - 1)
    IN  2 * Cardinality({p \in cells : n(p) = 4}) + Cardinality({p \in cells : n(p) = 3})

(***************************************************************************)
(* cv.minEnclosingCircle.  A circle is [ux, uy, d, r2]: centre (ux/d,      *)
(* uy/d), squared radius r2/d^2, d > 0.  The smallest circle enclosing a   *)
(* point set is the one that encloses it and has two of its points as a    *)
(* diameter or, failing that, three of them, the corners of a triangle     *)
(* without an obtuse angle, on its border; only points that are not        *)
(* between two opposite neighbours of the component can be on it.  OpenCV  *)
(* adds 1e-4 to the radius, which changes int(radius) only for radii above *)
(* 1000.                                                                   *)
(***************************************************************************)
Sq(v) == v * v

CircleOf1(a) == [ux |-> a[2], uy |-> a[1], d |-> 1, r2 |-> 0]

CircleOf2(a, b) ==
    [ux |-> a[2] + b[2], uy |-> a[1] + b[1], d |-> 2, r2 |-> Sq(a[2] - b[2]) + Sq(a[1] - b[1])]

\* twice the signed area of the triangle a, b, c, doubled
Det3(a, b, c) == 2 * ((b[2] - a[2]) * (c[1] - a[1]) - (b[1] - a[1]) * (c[2] - a[2]))

\* the circumcircle, computed relative to a
CircleOf3(a, b, c) ==
    LET bx == b[2] - a[2]
        by == b[1] - a[1]
        cx == c[2] - a[2]
        cy == c[1] - a[1]
        nb == Sq(bx) + Sq(by)
        nc == Sq(cx) + Sq(cy)
        sg == IF Det3(a, b, c) < 0 THEN -1 ELSE 1
        rx == sg * (cy * nb - by * nc)
        ry == sg * (bx * nc - cx * nb)
        d  == sg * Det3(a, b, c)
    IN  [ux |-> a[2] * d + rx, uy |-> a[1] * d + ry, d |-> d, r2 |-> Sq(rx) + Sq(ry)]

\* the angle at a of the triangle a, b, c is at most a right angle
NotObtuseAt(a, b, c) == (b[2] - a[2]) * (c[2] - a[2]) + (b[1] - a[1]) * (c[1] - a[1]) >= 0

Encloses(c, p) == Sq(p[2] * c.d - c.ux) + Sq(p[1] * c.d - c.uy) <= c.r2

HullCandidates(c) ==
    {p \in c : \A d \in {<<0, 1>>, <<1, 0>>, <<1, 1>>, <<1, -1>>} :
        ~ (<<p[1] + d[1], p[2] + d[2]>> \in c /\ <<p[1] - d[1], p[2] - d[2]>> \in c)}

minEnclosingCircle(c) ==
    LET v == HullCandidates(c)
        all(k) == \A p \in v : Encloses(k, p)
        two == {k \in {CircleOf2(t[1], t[2]) : t \in v \X v} : all(k)}
        three == {t \in v \X v \X v :
                    /\ Det3(t[1], t[2], t[3]) # 0
                    /\ NotObtuseAt(t[1], t[2], t[3])
                    /\ NotObtuseAt(t[2], t[3], t[1])
                    /\ NotObtuseAt(t[3], t[1], t[2])
                    /\ all(CircleOf3(t[1], t[2], t[3]))}
    IN  IF two # {} THEN CHOOSE k \in two : TRUE
        ELSE LET t == CHOOSE u \in three : TRUE
             IN  CircleOf3(t[1], t[2], t[3])

\* int(x), int(y), int(radius) of lines 30-31
IntCenter(k) == <<k.ux \div k.d, k.uy \div k.d>>

IntRadius(k) == CHOOSE n \in 0 .. (k.r2 \div Sq(k.d)) : Sq(n * k.d) <= k.r2 /\ Sq((n + 1) * k.d) > k.r2

(***************************************************************************)
(* cv.resize(src, (n, n), interpolation=cv.INTER_AREA): each output pixel  *)
(* is the mean of the source pixels weighted by the area they share with   *)
(* it, rounded to the nearest integer.  OpenCV rejects an empty source.    *)
(***************************************************************************)
Overlap(D, d, n, len) == Max2(0, Min2((D + 1) * len, (d + 1) * n) - Max2(D * len, d * n))

AreaMean(im, n, P, k) ==
    LET ylo == (P[1] * im.h) \div n
        yhi == ((P[1] + 1) * im.h - 1) \div n
        xlo == (P[2] * im.w) \div n
        xhi == ((P[2] + 1) * im.w - 1) \div n
        row(y) == SumOver(LAMBDA x : Overlap(P[2], x, n, im.w) * im.px[<<y, x>>][k], xlo, xhi)
        tot == SumOver(LAMBDA y : Overlap(P[1], y, n, im.h) * row(y), ylo, yhi)
    IN  RoundHalfEven(tot, im.h * im.w)

resize(im, n) ==
    [h |-> n, w |-> n,
     px |-> Table([P \in Pixels(n, n) |->
                     <<AreaMean(im, n, P, 1), AreaMean(im, n, P, 2), AreaMean(im, n, P, 3)>>])]

ResizeRaises(im, n) == IsEmpty(im) \/ n <= 0

\* img[y1:y2, x1:x2] with non-negative bounds
Crop(im, y1, y2, x1, x2) ==
    [h |-> Max2(0, Min2(y2, im.h) - y1), w |-> Max2(0, Min2(x2, im.w) - x1),
     px |-> Table([p \in Pixels(Min2(y2, im.h) - y1, Min2(x2, im.w) - x1) |->
                     im.px[<<p[1] + y1, p[2] + x1>>]])]

(***************************************************************************)
(* State.  pc is the position of the call in progress; call is the entry   *)
(* point the caller used.  The other variables are the locals of           *)
(* clean_axial_map and standardize_image, named as in the source.          *)
(* repairs lists, for each component the repair loop re-inpainted, its     *)
(* label and the temp_mask handed to cv.inpaint.  img and std_img are the   *)
(* caller's arrays: result_base tells whose memory the array bound to      *)
(* result uses ("own", or "img" when it shares the caller's), and          *)
(* img_at_call is what the caller's array held when the call was made.     *)
(***************************************************************************)
VARIABLES pc, call, img, cir, median_filtered, cutoff, mask, result, stats, i,
          repairs, result_full, std_img, output_size, contours, cropped, resized,
          std_out, path, center, radius, raised, result_base, img_at_call

\* AxialMapProcessor.process_image: its position (stage), its arguments and
\* what the scan holds (request), its locals, the dictionary it returns
\* (proc_result), the stages it has run (ran) and the files it has written
VARIABLES stage, request, dimensions, header, map_coords, axial_map_raw,
          proc_result, ran, files

imageVars == <<pc, call, img, cir, median_filtered, cutoff, mask, result, stats, i,
               repairs, result_full, std_img, output_size, contours, cropped, resized,
               std_out, path, center, radius, raised, result_base, img_at_call>>

procVars == <<stage, request, dimensions, header, map_coords, axial_map_raw,
              proc_result, ran, files>>

vars == <<imageVars, procVars>>

memVars == <<result_base, img_at_call>>

\* Python's None, and a value that is not None
None == {}

Some(v) == {v}

The(opt) == CHOOSE v \in opt : TRUE

\* axial_map_preprocessor.py, lines 74-83
NewResult ==
    [success |-> FALSE, message |-> "", dimensions |-> None, header |-> None, device |-> None,
     axial_map_full |-> None, axial_map_224 |-> None, output_paths |-> {}]

\* no call of process_image is under way
ProcIdle ==
    /\ stage = "none" /\ request = <<>> /\ dimensions = None /\ header = None
    /\ map_coords = None /\ axial_map_raw = None /\ proc_result = NewResult
    /\ ran = <<>> /\ files = {}

cleanVars == <<img, cir, median_filtered, cutoff, mask, result, stats, i, repairs, result_full>>

stdVars == <<std_img, output_size, contours, cropped, resized, std_out, path, center, radius>>

NoImage == [h |-> 0, w |-> 0, px |-> <<>>]

NoCircle == [cir_x |-> 0, cir_y |-> 0, cir_radius |-> 0]

\* the caller passes img and circle_params to clean_axial_map
InitClean(im, geo, n) ==
    /\ pc = "median" /\ call = "clean"
    /\ img = im /\ cir = geo
    /\ median_filtered = NoImage /\ cutoff = 0 /\ mask = {} /\ result = NoImage
    /\ stats = <<>> /\ i = 0 /\ repairs = <<>> /\ result_full = NoImage
    /\ std_img = NoImage /\ output_size = n /\ contours = <<>>
    /\ cropped = NoImage /\ resized = NoImage /\ std_out = NoImage
    /\ path = "" /\ center = <<0, 0>> /\ radius = 0 /\ raised = ""
    /\ result_base = "none" /\ img_at_call = im
    /\ ProcIdle

\* the caller passes img and output_size to standardize_image
InitStandardize(im, n) ==
    /\ pc = "std_contours" /\ call = "standardize"
    /\ img = NoImage /\ cir = NoCircle
    /\ median_filtered = NoImage /\ cutoff = 0 /\ mask = {} /\ result = NoImage
    /\ stats = <<>> /\ i = 0 /\ repairs = <<>> /\ result_full = NoImage
    /\ std_img = im /\ output_size = n /\ contours = <<>>
    /\ cropped = NoImage /\ resized = NoImage /\ std_out = NoImage
    /\ path = "" /\ center = <<0, 0>> /\ radius = 0 /\ raised = ""
    /\ result_base = "none" /\ img_at_call = im
    /\ ProcIdle

\* an exception leaves the function; nothing else is written
Raise(e) == /\ pc' = "raised" /\ raised' = e

(***************************************************************************)
(* clean_axial_map                                                         *)
(***************************************************************************)
\* line 61
Median ==
    /\ pc = "median"
    /\ median_filtered' = medianBlur(img)
    /\ pc' = "dark_mask"
    /\ UNCHANGED <<call, img, cir, cutoff, mask, result, stats, i, repairs, result_full, raised>>
    /\ UNCHANGED stdVars
    /\ UNCHANGED memVars
    /\ UNCHANGED procVars

LooseCutoff == 200

StrictCutoff == 160

MaskPercent == 20

\* lines 64-72
DarkMask ==
    /\ pc = "dark_mask"
    /\ LET loose == inRange(img, <<0, 0, 0>>, <<179, 255, LooseCutoff>>)
           perc_mask == RoundHalfEven(100 * Cardinality(loose), img.h * img.w)
       IN  IF perc_mask > MaskPercent
           THEN /\ mask' = inRange(img, <<0, 0, 0>>, <<180, 255, StrictCutoff>>)
                /\ cutoff' = StrictCutoff
           ELSE /\ mask' = loose
                /\ cutoff' = LooseCutoff
    /\ pc' = "inpaint"
    /\ UNCHANGED <<call, img, cir, median_filtered, result, stats, i, repairs, result_full, raised>>
    /\ UNCHANGED stdVars
    /\ UNCHANGED memVars
    /\ UNCHANGED procVars

\* an inpainting that writes its result into the memory of its source
InpaintInPlace(src_base) == src_base

\* lines 75, 114: the array cv.inpaint returns owns its memory, whatever it
\* was handed (line 75 hands it img.copy(), a copy already)
InpaintBase(src_base) == "own"

\* line 75
Inpaint ==
    /\ pc = "inpaint"
    /\ result' \in inpaint(img, mask)
    /\ result_base' = InpaintBase("img")
    /\ pc' = "extreme"
    /\ UNCHANGED <<call, img, cir, median_filtered, cutoff, mask, stats, i, repairs, result_full, raised>>
    /\ UNCHANGED stdVars
    /\ UNCHANGED img_at_call
    /\ UNCHANGED procVars

DarkLevel == 75

MediumLevel == 100

MediumRedLevel == 10

BrightLevel == 180

\* lines 78-87
ExtremeMask(im) ==
    {p \in Pixels(im.h, im.w) :
        LET c == im.px[p]
        IN  \/ \A k \in Chan : c[k] <= DarkLevel
            \/ (c[1] <= MediumLevel /\ c[2] <= MediumLevel /\ c[3] <= MediumRedLevel)
            \/ \A k \in Chan : c[k] >= BrightLevel}

\* lines 78-92
Extreme ==
    /\ pc = "extreme"
    /\ stats' = connectedComponentsWithStats(ExtremeMask(result))
    /\ i' = 1
    /\ pc' = "repair"
    /\ UNCHANGED <<call, img, cir, median_filtered, cutoff, mask, result, repairs, result_full, raised>>
    /\ UNCHANGED stdVars
    /\ UNCHANGED memVars
    /\ UNCHANGED procVars

MinArea == 1

MaxArea == 600

Margin == 5

Slack == 2

\* an area filter that lets the upper limit through
RepairableUpTo(area) == MinArea < area /\ area <= MaxArea

\* line 97
Repairable(area) == MinArea < area /\ area < MaxArea

\* lines 98-103: the index ranges y:y+h+2 and x:x+w+2 of np.ogrid, which does
\* not clip them to the image
RepairBox(st, im) ==
    LET x == Max2(0, st.left - Margin)
        y == Max2(0, st.top - Margin)
        w == Min2(im.w - x, st.width + Margin)
        h == Min2(im.h - y, st.height + Margin)
    IN  (y .. y + h + Slack - 1) \X (x .. x + w + Slack - 1)

\* lines 104-105
MaskCircle(box, geo) ==
    {p \in box : Dist2(p, geo.cir_x, geo.cir_y) <= geo.cir_radius * geo.cir_radius}

\* line 112: the boolean index mask_circle has the shape of the ogrid, the
\* slice of temp_mask it indexes is clipped to the image
ShapeMismatch(box, im) == \E p \in box : p \notin Pixels(im.h, im.w)

\* lines 107-112
TempMask(box, geo, im) ==
    IF MaskCircle(box, geo) = box THEN box \cap Pixels(im.h, im.w)
    ELSE MaskCircle(box, geo)

\* lines 95-114, one iteration of the loop
Repair ==
    /\ pc = "repair"
    /\ i <= Len(stats)
    /\ LET box == RepairBox(stats[i], result)
       IN  IF ~ Repairable(stats[i].area)
           THEN /\ i' = i + 1
                /\ UNCHANGED <<pc, result, repairs, raised, result_base>>
           ELSE IF MaskCircle(box, cir) # box /\ ShapeMismatch(box, result)
           THEN /\ Raise("IndexError")
                /\ UNCHANGED <<i, result, repairs, result_base>>
           ELSE /\ result' \in inpaint(result, TempMask(box, cir, result))
                /\ result_base' = InpaintBase(result_base)
                /\ repairs' = Append(repairs, [label |-> i, temp_mask |-> TempMask(box, cir, result)])
                /\ i' = i + 1
                /\ UNCHANGED <<pc, raised>>
    /\ UNCHANGED <<call, img, cir, median_filtered, cutoff, mask, stats, result_full>>
    /\ UNCHANGED stdVars
    /\ UNCHANGED img_at_call
    /\ UNCHANGED procVars

HighlightLevel == 150

\* a highlight correction that selects no pixel
HighlightMaskNone(res, circle_mask) == {}

\* a highlight correction with the cutoff of the near-saturated class
HighlightMaskBright(res, circle_mask) ==
    {p \in circle_mask : \A k \in Chan : res.px[p][k] >= BrightLevel}

\* lines 119-121
HighlightMask(res, circle_mask) ==
    {p \in circle_mask : \A k \in Chan : res.px[p][k] >= HighlightLevel}

\* line 122: result[mask2_bool] = median_filtered[mask2_bool]
Replace(res, ref, mask2_bool) ==
    LET chosen == mask2_bool
    IN  [res EXCEPT !.px = Table([p \in Pixels(res.h, res.w) |->
                                    IF p \in chosen THEN ref.px[p] ELSE res.px[p]])]

\* lines 117-122; the assignment of line 122 writes into the array bound to
\* result, and so into img when the two share their memory
Highlight ==
    /\ pc = "repair"
    /\ i > Len(stats)
    /\ IF CircleRaises(cir.cir_radius)
       THEN /\ Raise("cv2.error")
            /\ UNCHANGED <<result, img>>
       ELSE /\ result' = Replace(result, median_filtered,
                                 HighlightMask(result, FilledCircle(img.h, img.w, cir.cir_x, cir.cir_y,
                                                                    cir.cir_radius)))
            /\ img' = IF result_base = "img" THEN result' ELSE img
            /\ pc' = "clip"
            /\ UNCHANGED raised
    /\ UNCHANGED <<call, cir, median_filtered, cutoff, mask, stats, i, repairs, result_full>>
    /\ UNCHANGED stdVars
    /\ UNCHANGED memVars
    /\ UNCHANGED procVars

\* lines 125-129
Clip ==
    /\ pc = "clip"
    /\ result_full' = BitwiseAnd(result, FilledCircle(img.h, img.w, cir.cir_x, cir.cir_y, cir.cir_radius))
    /\ pc' = "standardize"
    /\ UNCHANGED <<call, img, cir, median_filtered, cutoff, mask, result, stats, i, repairs, raised>>
    /\ UNCHANGED stdVars
    /\ UNCHANGED memVars
    /\ UNCHANGED procVars

\* line 132: the call standardize_image(result_full), output_size defaulted
CallStandardize ==
    /\ pc = "standardize"
    /\ std_img' = result_full
    /\ pc' = "std_contours"
    /\ UNCHANGED <<call, output_size, contours, cropped, resized, std_out, path, center, radius, raised>>
    /\ UNCHANGED cleanVars
    /\ UNCHANGED memVars
    /\ UNCHANGED procVars

(***************************************************************************)
(* standardize_image                                                       *)
(***************************************************************************)
GrayThreshold == 10

\* a binarization that keeps every non-zero gray level
ThresholdNonZero(im) == {p \in Pixels(im.h, im.w) : BGR2GRAY(im.px[p]) > 0}

\* lines 14-17
Threshold(im) == {p \in Pixels(im.h, im.w) : BGR2GRAY(im.px[p]) > GrayThreshold}

\* where control goes when standardize_image returns
AfterStandardize == IF call = "clean" THEN "clean_return" ELSE "done"

\* lines 14-23
StdContours ==
    /\ pc = "std_contours"
    /\ contours' = findContours(Threshold(std_img))
    /\ IF contours' = <<>>
       THEN IF ResizeRaises(std_img, output_size)
            THEN /\ Raise("cv2.error")
                 /\ UNCHANGED <<std_out, path>>
            ELSE /\ std_out' = resize(std_img, output_size)
                 /\ path' = "fallback"
                 /\ pc' = AfterStandardize
                 /\ UNCHANGED raised
       ELSE /\ pc' = "std_crop"
            /\ UNCHANGED <<std_out, path, raised>>
    /\ UNCHANGED <<call, std_img, output_size, cropped, resized, center, radius>>
    /\ UNCHANGED cleanVars
    /\ UNCHANGED memVars
    /\ UNCHANGED procVars

\* line 26: max(contours, key=cv.contourArea); the order in which findContours
\* lists contours of equal area is the library's, so any of them may be first
LargestContours(cs, h, w) ==
    LET area == Table([k \in 1 .. Len(cs) |-> contourArea2(cs[k], h, w)])
    IN  {cs[k] : k \in {j \in 1 .. Len(cs) : \A n \in 1 .. Len(cs) : area[j] >= area[n]}}

\* lines 29-37: center, radius and the corners of the square around the circle
EnclosingSquare(im, largest_contour) ==
    LET k == minEnclosingCircle(largest_contour)
        c == IntCenter(k)
        r == IntRadius(k)
    IN  [center |-> c, radius |-> r,
         x1 |-> Max2(c[1] - r, 0), y1 |-> Max2(c[2] - r, 0),
         x2 |-> Min2(c[1] + r, im.w), y2 |-> Min2(c[2] + r, im.h)]

\* lines 26-39
StdCrop ==
    /\ pc = "std_crop"
    /\ \E largest_contour \in LargestContours(contours, std_img.h, std_img.w) :
          \E sq \in {EnclosingSquare(std_img, largest_contour)} :
              /\ center' = sq.center
              /\ radius' = sq.radius
              /\ cropped' = Crop(std_img, sq.y1, sq.y2, sq.x1, sq.x2)
    /\ pc' = "std_resize"
    /\ UNCHANGED <<call, std_img, output_size, contours, resized, std_out, path, raised>>
    /\ UNCHANGED cleanVars
    /\ UNCHANGED memVars
    /\ UNCHANGED procVars

\* line 42
StdResize ==
    /\ pc = "std_resize"
    /\ IF ResizeRaises(cropped, output_size)
       THEN /\ Raise("cv2.error")
            /\ UNCHANGED resized
       ELSE /\ resized' = resize(cropped, output_size)
            /\ pc' = "std_mask"
            /\ UNCHANGED raised
    /\ UNCHANGED <<call, std_img, output_size, contours, cropped, std_out, path, center, radius>>
    /\ UNCHANGED cleanVars
    /\ UNCHANGED memVars
    /\ UNCHANGED procVars

\* lines 45-51
StdMask ==
    /\ pc = "std_mask"
    /\ std_out' = BitwiseAnd(resized, FilledCircle(output_size, output_size, output_size \div 2,
                                                   output_size \div 2, output_size \div 2))
    /\ path' = "contour"
    /\ pc' = AfterStandardize
    /\ UNCHANGED <<call, std_img, output_size, contours, cropped, resized, center, radius, raised>>
    /\ UNCHANGED cleanVars
    /\ UNCHANGED memVars
    /\ UNCHANGED procVars

\* line 134
CleanReturn ==
    /\ pc = "clean_return"
    /\ pc' = "done"
    /\ UNCHANGED <<call, raised>>
    /\ UNCHANGED cleanVars
    /\ UNCHANGED stdVars
    /\ UNCHANGED memVars
    /\ UNCHANGED procVars

\* lines 11, 54: the caller calls the function again on the same arrays; the
\* call gets a new frame, in which no local is bound yet
Recall ==
    /\ pc = "done"
    /\ pc' = IF call = "clean" THEN "median" ELSE "std_contours"
    /\ img_at_call' = IF call = "clean" THEN img ELSE std_img
    /\ std_img' = IF call = "clean" THEN NoImage ELSE std_img
    /\ median_filtered' = NoImage /\ cutoff' = 0 /\ mask' = {} /\ result' = NoImage
    /\ stats' = <<>> /\ i' = 0 /\ repairs' = <<>> /\ result_full' = NoImage
    /\ contours' = <<>> /\ cropped' = NoImage /\ resized' = NoImage /\ std_out' = NoImage
    /\ path' = "" /\ center' = <<0, 0>> /\ radius' = 0 /\ result_base' = "none"
    /\ UNCHANGED <<call, img, cir, output_size, raised>>
    /\ UNCHANGED procVars

(***************************************************************************)
(* constants.py.  A dimension string is height_width; the coordinate       *)
(* tables are keyed by (height, width).                                    *)
(***************************************************************************)
\* lines 9-12
SUPPORTED_DIMENSIONS ==
    {"740_1200", "758_1200", "820_1200", "838_1200", "840_1200",
     "858_1200", "894_1600", "904_1200", "910_1200", "940_1200"}

\* lines 15-26
IMAGE_HEADER_COORDS ==
    ("758_1200" :> <<2, 40, 2, 948>>) @@ ("820_1200" :> <<2, 40, 2, 948>>) @@
    ("840_1200" :> <<2, 40, 2, 948>>) @@ ("894_1600" :> <<2, 40, 2, 948>>) @@
    ("740_1200" :> <<2, 40, 2, 948>>) @@ ("838_1200" :> <<2, 40, 2, 948>>) @@
    ("858_1200" :> <<100, 140, 2, 948>>) @@ ("904_1200" :> <<70, 110, 2, 948>>) @@
    ("910_1200" :> <<2, 40, 2, 948>>) @@ ("940_1200" :> <<100, 140, 2, 948>>)

\* lines 29-34; a text is the sequence of its words
MODEL_HEADERS ==
    << <<"WAVELIGHT", "ALLEGRO", "OCULYZER", "4", "Maps", "Refractive">>,
       <<"WAVELIGHT", "ALLEGRO", "OCULYZER", "4", "Maps", "Selectable">>,
       <<"OCULUS", "PENTACAM", "4", "Maps", "Refractive">>,
       <<"OCULUS", "PENTACAM", "4", "Maps", "Selectable">> >>

\* lines 41-44
PENTACAM_HEADERS ==
    {<<"OCULUS", "PENTACAM", "4", "Maps", "Refractive">>,
     <<"OCULUS", "PENTACAM", "4", "Maps", "Selectable">>}

\* an entry of the coordinate tables
MapEntry(row1, row2, col1, col2, cir_x, cir_y, cir_radius) ==
    [map1 |-> [row1 |-> row1, row2 |-> row2, col1 |-> col1, col2 |-> col2],
     circle_loc |-> [cir_x |-> cir_x, cir_y |-> cir_y, cir_radius |-> cir_radius]]

\* lines 62-103
REFRACTIVE_MAP_COORDS ==
    (<<740, 1200>> :> MapEntry(110, 340, 420, 650, 115, 115, 111)) @@
    (<<758, 1200>> :> MapEntry(115, 387, 431, 703, 136, 136, 126)) @@
    (<<820, 1200>> :> MapEntry(124, 416, 441, 733, 146, 146, 138)) @@
    (<<838, 1200>> :> MapEntry(128, 424, 447, 741, 146, 148, 140)) @@
    (<<840, 1200>> :> MapEntry(128, 424, 447, 743, 148, 148, 140)) @@
    (<<894, 1600>> :> MapEntry(132, 448, 559, 875, 158, 158, 150)) @@
    (<<858, 1200>> :> MapEntry(220, 484, 433, 697, 132, 132, 126)) @@
    (<<904, 1200>> :> MapEntry(190, 490, 445, 741, 147, 150, 140)) @@
    (<<910, 1200>> :> MapEntry(124, 424, 445, 741, 147, 150, 140)) @@
    (<<940, 1200>> :> MapEntry(230, 526, 445, 741, 147, 147, 140))

\* lines 106-143
SELECTABLE_MAP_COORDS ==
    (<<758, 1200>> :> MapEntry(115, 387, 431, 703, 136, 136, 126)) @@
    (<<820, 1200>> :> MapEntry(94, 386, 441, 733, 146, 146, 142)) @@
    (<<838, 1200>> :> MapEntry(128, 424, 447, 741, 146, 148, 140)) @@
    (<<840, 1200>> :> MapEntry(94, 390, 447, 743, 148, 148, 140)) @@
    (<<894, 1600>> :> MapEntry(93, 419, 554, 880, 164, 163, 158)) @@
    (<<858, 1200>> :> MapEntry(220, 484, 433, 697, 132, 132, 126)) @@
    (<<904, 1200>> :> MapEntry(190, 490, 445, 741, 147, 150, 140)) @@
    (<<910, 1200>> :> MapEntry(94, 394, 445, 741, 147, 150, 140)) @@
    (<<940, 1200>> :> MapEntry(230, 526, 445, 741, 147, 147, 140))

(***************************************************************************)
(* ocr_utils.py                                                            *)
(***************************************************************************)
\* the characters the second substitution of clean_header_text deletes
Punctuation == {":", "-", "|"}

\* lines 83-88: a word made of punctuation is deleted, the blanks around it
\* stay, so an empty word is left in its place
clean_header_text(text) ==
    [k \in 1 .. Len(text) |-> IF text[k] \in Punctuation THEN "" ELSE text[k]]

\* str.lower on the words that occur
LowerCase ==
    ("WAVELIGHT" :> "wavelight") @@ ("ALLEGRO" :> "allegro") @@ ("OCULYZER" :> "oculyzer") @@
    ("OCULUS" :> "oculus") @@ ("PENTACAM" :> "pentacam") @@ ("Maps" :> "maps") @@
    ("Refractive" :> "refractive") @@ ("Selectable" :> "selectable") @@
    ("Name" :> "name") @@ ("Exam" :> "exam")

Lower(word) == IF word \in DOMAIN LowerCase THEN LowerCase[word] ELSE word

\* lines 101, 104: set(text.lower().split())
WordSet(text) == {Lower(text[k]) : k \in 1 .. Len(text)} \ {""}

\* line 97: header in extracted_text
Contains(text, part) ==
    \E k \in 0 .. Len(text) - Len(part) : SubSeq(text, k + 1, k + Len(part)) = part

MatchPercent == 60

\* lines 91-109
match_header(extracted_text, expected_headers) ==
    LET text == clean_header_text(extracted_text)
        exact == {k \in 1 .. Len(expected_headers) : Contains(text, expected_headers[k])}
        fuzzy == {k \in 1 .. Len(expected_headers) :
                     100 * Cardinality(WordSet(text) \cap WordSet(expected_headers[k]))
                         >= MatchPercent * Cardinality(WordSet(expected_headers[k]))}
    IN  IF exact # {} THEN Some(expected_headers[MinOf(exact)])
        ELSE IF fuzzy # {} THEN Some(expected_headers[MinOf(fuzzy)])
        ELSE None

(***************************************************************************)
(* axial_map_preprocessor.py: AxialMapProcessor                            *)
(***************************************************************************)
\* lines 32, 41: f"{height}_{width}"
DimStr(shape) == ToString(shape[1]) \o "_" \o ToString(shape[2])

\* lines 94, 111: a (height, width) tuple in an f-string
TupleStr(shape) == "(" \o ToString(shape[1]) \o ", " \o ToString(shape[2]) \o ")"

\* a dimension check that lets every shape through
AnyDimensions(shape) == Some(shape)

\* lines 29-36
get_image_dimensions(shape) ==
    IF DimStr(shape) \in SUPPORTED_DIMENSIONS THEN Some(shape) ELSE None

\* lines 38-50, header_text being what the OCR reads in the header region
extract_and_match_header(header_text, dims) ==
    IF DimStr(dims) \notin DOMAIN IMAGE_HEADER_COORDS THEN None
    ELSE match_header(header_text, MODEL_HEADERS)

\* line 55: 'Refractive' in header
IsRefractive(hd) == \E k \in 1 .. Len(hd) : hd[k] = "Refractive"

\* lines 52-62
get_axial_map_coordinates(dims, hd) ==
    LET coords_dict == IF IsRefractive(hd) THEN REFRACTIVE_MAP_COORDS ELSE SELECTABLE_MAP_COORDS
    IN  IF dims \notin DOMAIN coords_dict THEN None ELSE Some(coords_dict[dims])

\* lines 64-69: the shape of the slice image[row1:row2, col1:col2]
extract_axial_map(shape, coords) ==
    <<Max2(0, Min2(coords.map1.row2, shape[1]) - Min2(coords.map1.row1, shape[1])),
      Max2(0, Min2(coords.map1.col2, shape[2]) - Min2(coords.map1.col1, shape[2]))>>

\* a return of process_image
Return == stage' = "returned"

\* line 131 and line 136: os.path.join(output_dir, f"{base_name}_axial_....png")
OutputPath(output_dir, base_name, suffix) == output_dir \o "/" \o base_name \o suffix

\* a call of process_image on the supported dimensions
ProcCall(req) ==
    /\ stage = "read" /\ request = req /\ dimensions = None /\ header = None
    /\ map_coords = None /\ axial_map_raw = None /\ proc_result = NewResult
    /\ ran = <<>> /\ files = {}

\* lines 86-89
ProcRead ==
    /\ stage = "read"
    /\ ran' = Append(ran, "read")
    /\ IF ~ request.readable
       THEN /\ proc_result' = [proc_result EXCEPT
                                  !.message = "Failed to read image: " \o request.stem \o request.ext]
            /\ Return
       ELSE /\ stage' = "dimensions"
            /\ UNCHANGED proc_result
    /\ UNCHANGED <<request, dimensions, header, map_coords, axial_map_raw, files>>
    /\ UNCHANGED imageVars

\* lines 92-97
ProcDimensions ==
    /\ stage = "dimensions"
    /\ ran' = Append(ran, "dimensions")
    /\ dimensions' = get_image_dimensions(request.shape)
    /\ IF dimensions' = None
       THEN /\ proc_result' = [proc_result EXCEPT
                                  !.message = "Unsupported image dimensions: " \o TupleStr(request.shape)]
            /\ Return
       ELSE /\ proc_result' = [proc_result EXCEPT !.dimensions = dimensions']
            /\ stage' = "header"
    /\ UNCHANGED <<request, header, map_coords, axial_map_raw, files>>
    /\ UNCHANGED imageVars

\* lines 100-106; extract_text raises RuntimeError without an OCR engine
\* (ocr_utils.py, lines 54-73)
ProcHeader ==
    /\ stage = "header"
    /\ ran' = Append(ran, "header")
    /\ IF DimStr(The(dimensions)) \in DOMAIN IMAGE_HEADER_COORDS /\ ~ request.ocr
       THEN /\ stage' = "raised"
            /\ UNCHANGED <<header, proc_result>>
       ELSE /\ header' = extract_and_match_header(request.header_text, The(dimensions))
            /\ IF header' = None
               THEN /\ proc_result' = [proc_result EXCEPT
                                          !.message = "Could not identify image header/type"]
                    /\ Return
               ELSE /\ proc_result' = [proc_result EXCEPT
                                          !.header = header',
                                          !.device = IF The(header') \in PENTACAM_HEADERS
                                                     THEN Some("pentacam") ELSE Some("oculyzer")]
                    /\ stage' = "coordinates"
    /\ UNCHANGED <<request, dimensions, map_coords, axial_map_raw, files>>
    /\ UNCHANGED imageVars

\* lines 109-112
ProcCoordinates ==
    /\ stage = "coordinates"
    /\ ran' = Append(ran, "coordinates")
    /\ map_coords' = get_axial_map_coordinates(The(dimensions), The(header))
    /\ IF map_coords' = None
       THEN /\ proc_result' = [proc_result EXCEPT
                                  !.message = "No coordinates defined for dimensions: "
                                                  \o TupleStr(The(dimensions))]
            /\ Return
       ELSE /\ stage' = "crop"
            /\ UNCHANGED proc_result
    /\ UNCHANGED <<request, dimensions, header, axial_map_raw, files>>
    /\ UNCHANGED imageVars

\* line 115
ProcExtract ==
    /\ stage = "crop"
    /\ ran' = Append(ran, "crop")
    /\ axial_map_raw' = Some(extract_axial_map(request.shape, The(map_coords)))
    /\ stage' = "clean"
    /\ UNCHANGED <<request, dimensions, header, map_coords, proc_result, files>>
    /\ UNCHANGED imageVars

\* lines 118-122: clean_axial_map returns the two maps, or raises, which
\* process_image does not catch
ProcClean ==
    /\ stage = "clean"
    /\ ran' = Append(ran, "clean")
    /\ \/ /\ proc_result' = [proc_result EXCEPT
                                !.axial_map_full = Some(The(axial_map_raw)),
                                !.axial_map_224 = Some(<<224, 224>>)]
          /\ stage' = "save"
       \/ /\ stage' = "raised"
          /\ UNCHANGED proc_result
    /\ UNCHANGED <<request, dimensions, header, map_coords, axial_map_raw, files>>
    /\ UNCHANGED imageVars

\* lines 125-138
ProcSave ==
    /\ stage = "save"
    /\ ran' = Append(ran, "save")
    /\ LET full == IF request.output_dir # "" /\ request.save_full
                   THEN {<<"full", OutputPath(request.output_dir, request.stem, "_axial_full.png")>>}
                   ELSE {}
           std == IF request.output_dir # "" /\ request.save_standardized
                  THEN {<<"standardized", OutputPath(request.output_dir, request.stem, "_axial_224.png")>>}
                  ELSE {}
       IN  /\ files' = files \cup {e[2] : e \in full \cup std}
           /\ proc_result' = [proc_result EXCEPT !.output_paths = full \cup std]
    /\ stage' = "finish"
    /\ UNCHANGED <<request, dimensions, header, map_coords, axial_map_raw>>
    /\ UNCHANGED imageVars

\* lines 140-143
ProcFinish ==
    /\ stage = "finish"
    /\ proc_result' = [proc_result EXCEPT !.success = TRUE, !.message = "Successfully processed image"]
    /\ Return
    /\ UNCHANGED <<request, dimensions, header, map_coords, axial_map_raw, ran, files>>
    /\ UNCHANGED imageVars

(***************************************************************************)
(* Inputs.  A scene is a background colour, a one-pixel frame along the    *)
(* image border and a spot of pixels in a third colour; the calls are made *)
(* on the images of the scenes below.                                      *)
(***************************************************************************)
Rect(top, left, height, width) == (top .. top + height - 1) \X (left .. left + width - 1)

OnBorder(p, h, w) == p[1] = 0 \/ p[2] = 0 \/ p[1] = h - 1 \/ p[2] = w - 1

Render(h, w, bg, frame, fg, spot) ==
    [h |-> h, w |-> w,
     px |-> Table([p \in Pixels(h, w) |->
                     IF p \in spot THEN fg ELSE IF OnBorder(p, h, w) THEN frame ELSE bg])]

\* side of the square images clean_axial_map is called on
Side == 9

\* the default output_size of standardize_image, scaled to the model's images
DefaultOutputSize == 4

\* background and frame
Schemes == {<<Green, Green>>, <<Green, Cyan>>, <<Gray, Gray>>}

SpotColours == {White, Black, Silver}

\* height and width of the spot
SpotShapes == {<<1, 1>>, <<1, 2>>}

\* top-left corners: the image corner, the middle, the right edge and the
\* bottom-right corner
SpotPlaces(h, w) == {<<0, 0>>, <<h \div 2 - 1, w \div 2 - 1>>, <<h \div 2, w - 2>>, <<h - 2, w - 2>>}

\* a spot of each shape at each place, and a two-pixel spot in the middle with
\* a single pixel on the bottom row
Spots(h, w) ==
    {Rect(s[1], s[2], d[1], d[2]) : s \in SpotPlaces(h, w), d \in SpotShapes}
        \cup {Rect(h \div 2 - 1, w \div 2 - 1, 1, 2) \cup {<<h - 1, w \div 2>>}}

\* circle_params: centred discs of negative, zero, half-side and all-covering
\* radius, a disc clipped by the corner and a disc wholly outside the image
Geometries(h, w) ==
    {[cir_x |-> w \div 2, cir_y |-> h \div 2, cir_radius |-> r] : r \in {-1, 0, w \div 2, 3 * w}}
        \cup {[cir_x |-> 0, cir_y |-> 0, cir_radius |-> w \div 2],
              [cir_x |-> -2, cir_y |-> h \div 2, cir_radius |-> 1]}

Init ==
    \E sc \in Schemes, fg \in SpotColours, spot \in Spots(Side, Side), geo \in Geometries(Side, Side) :
        InitClean(Render(Side, Side, sc[1], sc[2], fg, spot), geo, DefaultOutputSize)

Next ==
    \/ Median
    \/ DarkMask
    \/ Inpaint
    \/ Extreme
    \/ Repair
    \/ Highlight
    \/ Clip
    \/ CallStandardize
    \/ StdContours
    \/ StdCrop
    \/ StdResize
    \/ StdMask
    \/ CleanReturn
    \/ Recall

Spec == Init /\ [][Next]_vars

(***************************************************************************)
(* Direct calls of standardize_image, on small images of both aspect       *)
(* ratios: without foreground (black, dim, or dim on black), and with a    *)
(* foreground of one pixel, a short line, a block, or two separate parts.  *)
(***************************************************************************)
\* the sides of the images standardize_image is called on
StdShort == 4

StdLong == 6

StdSizes == {<<StdShort, StdLong>>, <<StdLong, StdShort>>}

\* background and spot colour
StdSchemes == {<<Black, White>>, <<Dim, White>>, <<Black, Dim>>, <<Dim, Dim>>}

StdShapes == {<<1, 1>>, <<1, 2>>, <<2, 2>>, <<1, 3>>, <<3, 3>>}

StdPlaces(h, w) == {<<0, 0>>, <<1, 1>>, <<h - 3, w - 3>>}

StdSpots(h, w) ==
    {Rect(s[1], s[2], d[1], d[2]) : s \in StdPlaces(h, w), d \in StdShapes}
        \cup {{}, {<<0, 0>>, <<h - 1, w - 1>>}, Rect(0, 0, 3, 3) \cup {<<h - 1, w - 1>>}}

InitStd ==
    \E hw \in StdSizes, sc \in StdSchemes, n \in 1 .. DefaultOutputSize :
        \E spot \in StdSpots(hw[1], hw[2]) :
            InitStandardize(Render(hw[1], hw[2], sc[1], sc[1], sc[2], spot), n)

NextStd ==
    \/ StdContours
    \/ StdCrop
    \/ StdResize
    \/ StdMask
    \/ Recall

SpecStd == InitStd /\ [][NextStd]_vars

(***************************************************************************)
(* Calls of clean_axial_map on images whose first k pixels in raster order *)
(* are dark, for every k: the fractions the looser dark mask can cover.    *)
(***************************************************************************)
\* the first n pixels, in raster order, of the bw-wide block at <<top, left>>
Run(n, top, left, bw) == {<<top + (j \div bw), left + (j % bw)>> : j \in 0 .. n - 1}

\* side of the square images of this family
PercSide == 7

\* gray is dark under both cutoffs, silver under the looser one only
DarkColours == {Gray, Silver}

PercGeometries(h, w) ==
    {[cir_x |-> w \div 2, cir_y |-> h \div 2, cir_radius |-> r] : r \in {w \div 2, 3 * w}}

InitPerc ==
    \E k \in 0 .. PercSide * PercSide, dark \in DarkColours, geo \in PercGeometries(PercSide, PercSide) :
        InitClean(Render(PercSide, PercSide, White, White, dark, Run(k, 0, 0, PercSide)),
                  geo, DefaultOutputSize)

SpecPerc == InitPerc /\ [][Next]_vars

(***************************************************************************)
(* Calls of clean_axial_map on images with one pixel of artifact colour in *)
(* the corner and, clear of the border, a run of n artifact pixels, n on   *)
(* either side of each limit of the repair loop's area filter.             *)
(***************************************************************************)
\* width of the block the run fills row by row
BlockW == 25

BlockTop == Margin + 1

AreaH == (MaxArea + 1) \div BlockW + 1 + 2 * Margin + Slack + 2

AreaW == BlockW + 2 * Margin + Slack + 2

RunAreas == {MinArea + 1, MaxArea - 1, MaxArea, MaxArea + 1}

\* an all-covering disc, and a small one on the top-left corner of the run
AreaGeometries ==
    {[cir_x |-> AreaW \div 2, cir_y |-> AreaH \div 2, cir_radius |-> AreaW],
     [cir_x |-> BlockTop, cir_y |-> BlockTop, cir_radius |-> InpaintRadius]}

InitArea ==
    \E n \in RunAreas, fg \in {White, Black}, geo \in AreaGeometries :
        InitClean(Render(AreaH, AreaW, Green, Green, fg, Run(n, BlockTop, BlockTop, BlockW) \cup {<<0, 0>>}),
                  geo, DefaultOutputSize)

SpecArea == InitArea /\ [][Next]_vars

(***************************************************************************)
(* Calls of clean_axial_map on the end-to-end scene: a uniform gray image  *)
(* with one small solid dark artifact towards the top-left corner and a    *)
(* centred circle, the circle's radius, the artifact's corner and the      *)
(* image's side in the proportions 140 : 50 : 300.                         *)
(***************************************************************************)
\* side of the square images of this family
SceneSide == 15

SceneGeometry ==
    [cir_x |-> SceneSide \div 2, cir_y |-> SceneSide \div 2, cir_radius |-> (140 * SceneSide) \div 300]

\* the artifact's top-left corner, and two places further in along the diagonal
ArtifactPlaces == {(50 * SceneSide) \div 300 + d : d \in 0 .. 2}

\* height and width of the artifact
ArtifactShapes == {<<1, 2>>, <<2, 2>>, <<2, 3>>, <<3, 2>>}

ArtifactColours == {Black, Dim}

InitScene ==
    \E fg \in ArtifactColours, c \in ArtifactPlaces, d \in ArtifactShapes :
        InitClean(Render(SceneSide, SceneSide, Gray, Gray, fg, Rect(c, c, d[1], d[2])),
                  SceneGeometry, DefaultOutputSize)

SpecScene == InitScene /\ [][Next]_vars

(***************************************************************************)
(* Calls of process_image: on a file that can or cannot be read, of every  *)
(* supported shape and two unsupported ones, whose header region reads as  *)
(* one of the texts below, with and without an OCR engine, an output       *)
(* directory and each of the two save flags.                               *)
(***************************************************************************)
\* (height, width) of the scans
Shapes ==
    {<<740, 1200>>, <<758, 1200>>, <<820, 1200>>, <<838, 1200>>, <<840, 1200>>,
     <<858, 1200>>, <<894, 1600>>, <<904, 1200>>, <<910, 1200>>, <<940, 1200>>,
     <<1200, 740>>, <<600, 800>>}

\* what the OCR reads: each header alone, a header among other words, a
\* header in lower case, a header split by a punctuation mark, other words,
\* and nothing
HeaderTexts ==
    {MODEL_HEADERS[k] : k \in 1 .. Len(MODEL_HEADERS)}
        \cup {<<"Name">> \o MODEL_HEADERS[2] \o <<"Exam">>,
              <<"oculus", "pentacam", "4", "maps", "selectable">>,
              <<"OCULUS", "PENTACAM", ":", "4", "Maps", "Selectable">>,
              <<"Name", "Exam">>,
              <<>>}

Requests ==
    [readable : BOOLEAN, shape : Shapes, header_text : HeaderTexts, ocr : BOOLEAN,
     stem : {"scan"}, ext : {".png"}, output_dir : {"", "out"},
     save_full : BOOLEAN, save_standardized : BOOLEAN]

\* clean_axial_map and standardize_image are not under way
ImageIdle ==
    /\ pc = "idle" /\ call = "process"
    /\ img = NoImage /\ cir = NoCircle
    /\ median_filtered = NoImage /\ cutoff = 0 /\ mask = {} /\ result = NoImage
    /\ stats = <<>> /\ i = 0 /\ repairs = <<>> /\ result_full = NoImage
    /\ std_img = NoImage /\ output_size = DefaultOutputSize /\ contours = <<>>
    /\ cropped = NoImage /\ resized = NoImage /\ std_out = NoImage
    /\ path = "" /\ center = <<0, 0>> /\ radius = 0 /\ raised = ""
    /\ result_base = "none" /\ img_at_call = NoImage

InitProc == ImageIdle /\ \E req \in Requests : ProcCall(req)

NextProc ==
    \/ ProcRead
    \/ ProcDimensions
    \/ ProcHeader
    \/ ProcCoordinates
    \/ ProcExtract
    \/ ProcClean
    \/ ProcSave
    \/ ProcFinish

SpecProc == InitProc /\ [][NextProc]_vars

(***************************************************************************)
(* Properties                                                              *)
(***************************************************************************)
Returned == pc = "done"

OutsideCircle(p) == Dist2(p, cir.cir_x, cir.cir_y) > cir.cir_radius * cir.cir_radius

\* C1: when clean_axial_map returns, every pixel of the full-resolution image
\* whose distance from (cir_x, cir_y) is greater than cir_radius is zero on
\* all three channels, whatever the earlier stages wrote there.
C1_ZeroOutsideCircle ==
    (call = "clean" /\ Returned) =>
        \A p \in Pixels(result_full.h, result_full.w) : OutsideCircle(p) => result_full.px[p] = Black

\* a returned call in which a repair ran and the working image was non-zero
\* at a pixel outside the circle, so the clip is what zeroed it
C1_Witness ==
    /\ call = "clean" /\ Returned
    /\ repairs # <<>>
    /\ \E p \in Pixels(result.h, result.w) : OutsideCircle(p) /\ result.px[p] # Black

\* the labels of the components the repair loop has re-inpainted
RepairedLabels == {repairs[j].label : j \in 1 .. Len(repairs)}

\* the components the loop of lines 95-114 has got past
PassedLabels == 1 .. i - 1

\* the loop is at a component whose area is not strictly between 1 and 600
AtAreaOutOfRange ==
    /\ pc = "repair" /\ i <= Len(stats)
    /\ (stats[i].area <= MinArea \/ stats[i].area >= MaxArea)

LooseMask(im) == inRange(im, <<0, 0, 0>>, <<179, 255, LooseCutoff>>)

\* C3: the initial dark mask is built with the stricter cutoff exactly when
\* the mask built with the looser cutoff flags more than 20% of the pixels,
\* and with the looser cutoff otherwise, for every coverage fraction.
C3_StrictIffOverFifth ==
    (call = "clean" /\ pc \notin {"median", "dark_mask"}) =>
        /\ cutoff \in {LooseCutoff, StrictCutoff}
        /\ (cutoff = StrictCutoff) <=>
               (100 * Cardinality(LooseMask(img)) > MaskPercent * img.h * img.w)

\* the pixels some component repair handed to cv.inpaint
Reinpainted == UNION {repairs[j].temp_mask : j \in 1 .. Len(repairs)}

\* the input pixels inside the circle with all channels at 255
WhiteInside == {p \in Pixels(img.h, img.w) : img.px[p] = White /\ ~ OutsideCircle(p)}

\* C4 as stated: every input pixel inside the circle with all channels at 255
\* has, in the output, the value of the median-filtered reference, whatever
\* the size of its bright component.
C4_WhiteBecomesMedian ==
    (call = "clean" /\ Returned) =>
        \A p \in WhiteInside : result_full.px[p] = median_filtered.px[p]

\* C4, amended: an input pixel inside the circle with all channels at 255
\* that no component repair re-inpaints has, in the output, the value of the
\* median-filtered reference; and every output pixel inside the circle
\* either has that value or is below the highlight level on some channel.
C4_UnrepairedWhiteBecomesMedian ==
    (call = "clean" /\ Returned) =>
        /\ \A p \in WhiteInside \ Reinpainted : result_full.px[p] = median_filtered.px[p]
        /\ \A p \in Pixels(img.h, img.w) :
              \/ OutsideCircle(p)
              \/ result_full.px[p] = median_filtered.px[p]
              \/ \E k \in Chan : result_full.px[p][k] < HighlightLevel

\* a returned call in which a repair ran, and a white input pixel it did not
\* cover was replaced by a reference value that is not white
C4_Witness ==
    /\ call = "clean" /\ Returned
    /\ repairs # <<>>
    /\ \E p \in WhiteInside \ Reinpainted : result_full.px[p] # White

\* the circle has a positive radius and lies inside the image
ValidGeometry ==
    /\ cir.cir_radius > 0
    /\ cir.cir_x - cir.cir_radius >= 0 /\ cir.cir_x + cir.cir_radius <= img.w - 1
    /\ cir.cir_y - cir.cir_radius >= 0 /\ cir.cir_y + cir.cir_radius <= img.h - 1

\* C5: with a circle of positive radius inside the image, clean_axial_map
\* never raises, wherever the artifact components lie.
C5_TotalOnValidGeometry == (call = "clean" /\ ValidGeometry) => pc # "raised"

\* the radius is not positive, or no pixel of the image is in the disc
DegenerateGeometry ==
    \/ cir.cir_radius <= 0
    \/ \A p \in Pixels(img.h, img.w) : OutsideCircle(p)

\* C6: called with degenerate geometry, clean_axial_map does not return
\* normally: it fails with an error.
C6_DegenerateNeverReturns == (call = "clean" /\ DegenerateGeometry) => ~ Returned

\* the binarized image of line 17 has no non-zero pixel
NoForeground(im) == \A p \in Pixels(im.h, im.w) : BGR2GRAY(im.px[p]) <= GrayThreshold

\* standardize_image has left its contour search behind
PastContours == pc # "std_contours"

\* C7: for every input image and positive output_size, standardize_image
\* returns (it does not raise) and what it returns is output_size x
\* output_size, also when the enclosing circle's truncated radius is 0.
C7_AlwaysSquare ==
    (call = "standardize" /\ output_size > 0) =>
        /\ pc # "raised"
        /\ Returned => (std_out.h = output_size /\ std_out.w = output_size)

\* C8: on both return paths, every pixel of the image standardize_image
\* returns that lies outside the circle of radius output_size/2 around
\* (output_size/2, output_size/2) is zero on all channels.
C8_ZeroOutsideInscribed ==
    (call = "standardize" /\ Returned) =>
        \A p \in Pixels(std_out.h, std_out.w) :
            Dist2(p, output_size \div 2, output_size \div 2) > Sq(output_size \div 2)
                => std_out.px[p] = Black

\* C9: when no pixel of the input is brighter than the binarization
\* threshold, standardize_image does not raise and returns the plain
\* INTER_AREA resize of the whole input, taking no crop.
C9_FallbackResize ==
    (call = "standardize" /\ NoForeground(std_img) /\ PastContours) =>
        /\ Returned
        /\ path = "fallback"
        /\ std_out = resize(std_img, output_size)
        /\ cropped = NoImage

\* a returned call on an input without foreground that is neither uniform nor
\* square, so that the resize is not the input and averages different pixels
C9_Witness ==
    /\ call = "standardize" /\ Returned
    /\ NoForeground(std_img)
    /\ std_img.h # std_img.w
    /\ \E p, q \in Pixels(std_img.h, std_img.w) : std_img.px[p] # std_img.px[q]
    /\ \E p \in Pixels(std_out.h, std_out.w) : std_out.px[p] \notin {Black, Dim}

\* every contour findContours returns for the image measures zero area
OnlyZeroArea(im) ==
    LET cs == findContours(Threshold(im))
    IN  /\ cs # <<>>
        /\ \A k \in 1 .. Len(cs) : contourArea2(cs[k], im.h, im.w) = 0

\* C10: when the contour standardize_image selects has zero area, the call
\* takes the no-contour path: it returns the plain resize of the whole image
\* and does not fail.
C10_ZeroAreaFallsBack ==
    (call = "standardize" /\ OnlyZeroArea(std_img) /\ pc \in {"done", "raised"}) =>
        /\ Returned
        /\ path = "fallback"
        /\ std_out = resize(std_img, output_size)

\* nearer to the gray of the background than to black, on every channel
NearGray(c) == \A k \in Chan : 2 * c[k] > Gray[k]

\* C11: on a uniform gray image with a solid black artifact of in-range area
\* and a centred circle, clean_axial_map returns; the initial brightness mask
\* does not flag the gray background as a dark artifact; and in the output
\* every pixel outside the circle is zero while the artifact's pixels inside
\* it are close to the surrounding gray.
C11_SceneCleaned ==
    (call = "clean") =>
        /\ pc # "raised"
        /\ pc \notin {"median", "dark_mask"} => \A p \in mask : img.px[p] # Gray
        /\ Returned =>
              \A p \in Pixels(img.h, img.w) :
                  IF OutsideCircle(p) THEN result_full.px[p] = Black
                  ELSE img.px[p] \in ArtifactColours => NearGray(result_full.px[p])

\* the locals of both functions are unbound
FreshFrame ==
    /\ median_filtered = NoImage /\ cutoff = 0 /\ mask = {} /\ result = NoImage
    /\ stats = <<>> /\ i = 0 /\ repairs = <<>> /\ result_full = NoImage
    /\ contours = <<>> /\ cropped = NoImage /\ resized = NoImage /\ std_out = NoImage
    /\ result_base = "none"

\* C12: neither clean_axial_map nor standardize_image ever modifies the array
\* it is given: at every point of a call, and after it, the caller's array
\* holds what it held when the call was made (the image standardize_image is
\* handed by clean_axial_map included); and a later call starts with every
\* local unbound, so it reads nothing an earlier call wrote.
C12_InputUntouched ==
    /\ call = "clean" => img = img_at_call
    /\ call = "standardize" => std_img = img_at_call
    /\ (call = "clean" /\ pc \in {"std_contours", "std_crop", "std_resize", "std_mask", "clean_return", "done"})
          => std_img = result_full
    /\ pc \in {"median", "std_contours"} /\ call = (IF pc = "median" THEN "clean" ELSE "standardize")
          => FreshFrame

\* a returned call in which a repair produced a new working array and line
\* 122 then wrote into it, at a pixel the input has white and no inpainting
\* covered, a value the input does not have there
C12_Witness ==
    /\ call = "clean" /\ Returned
    /\ repairs # <<>>
    /\ result_base = "own"
    /\ \E p \in Pixels(img.h, img.w) \ (mask \cup Reinpainted) :
          /\ img.px[p] = White
          /\ result.px[p] = median_filtered.px[p]
          /\ result.px[p] # img.px[p]

\* the bounding box of a component widened by the margin on each of its four
\* sides and clamped to the image
ClampedMarginBox(st, im) ==
    (Max2(0, st.top - Margin) .. Min2(im.h - 1, st.top + st.height - 1 + Margin))
        \X (Max2(0, st.left - Margin) .. Min2(im.w - 1, st.left + st.width - 1 + Margin))

\* C13: the region handed to cv.inpaint for a repaired component is the
\* component's bounding box expanded by 5 pixels on each of its four sides,
\* clamped to the image, and intersected with the circle.
C13_RegionIsMarginBoxInCircle ==
    (call = "clean") =>
        \A j \in 1 .. Len(repairs) :
            repairs[j].temp_mask =
                {p \in ClampedMarginBox(stats[repairs[j].label], img) : ~ OutsideCircle(p)}

\* the step of lines 117-122 that returns to line 125
HighlightStep == pc = "repair" /\ pc' = "clip"

\* what line 122 leaves in the working image when it replaces the pixels
\* inside the circle whose channels are all at or above level
ReplacedFrom(level) ==
    [p \in Pixels(result.h, result.w) |->
        IF ~ OutsideCircle(p) /\ \A k \in Chan : result.px[p][k] >= level
        THEN median_filtered.px[p] ELSE result.px[p]]

\* C14 as stated: the highlight correction gives a pixel the value of the
\* median-filtered reference if and only if the pixel is inside the circle
\* and all of its channels are at or above 180, the cutoff of the
\* near-saturated class; every other pixel keeps its value.
C14_ReplacedIffBright ==
    [][HighlightStep => \A p \in Pixels(result.h, result.w) : result'.px[p] = ReplacedFrom(BrightLevel)[p]]_vars

\* C14, amended: the highlight correction gives a pixel the value of the
\* median-filtered reference if and only if the pixel is inside the circle
\* and all of its channels are at or above 150; every other pixel, one with
\* a channel below 150 or outside the circle, keeps its value.
C14_ReplacedIffHighlight ==
    [][HighlightStep => \A p \in Pixels(result.h, result.w) : result'.px[p] = ReplacedFrom(HighlightLevel)[p]]_vars

\* the correction has just run and, inside the circle, a pixel no inpainting
\* touched, with all channels at 170, now has the different reference value
C14_Witness ==
    /\ call = "clean" /\ pc = "clip"
    /\ \E p \in Pixels(img.h, img.w) \ (mask \cup Reinpainted) :
          /\ ~ OutsideCircle(p)
          /\ img.px[p] = Silver
          /\ result.px[p] = median_filtered.px[p]
          /\ result.px[p] # Silver

\* process_image has returned its dictionary
ProcReturned == stage = "returned"

\* the stages in the order of the code
StageOrder == <<"read", "dimensions", "header", "coordinates", "crop", "clean", "save">>

\* the first stage that fails for the request: 1 for a file that cannot be
\* read, 2 for an unsupported shape, 3 for a header text no header matches,
\* 4 for a shape and header without coordinates, 0 when none of them fails
FirstFailure ==
    IF ~ request.readable THEN 1
    ELSE IF DimStr(request.shape) \notin SUPPORTED_DIMENSIONS THEN 2
    ELSE IF match_header(request.header_text, MODEL_HEADERS) = None THEN 3
    ELSE IF request.shape \notin
              DOMAIN (IF IsRefractive(The(match_header(request.header_text, MODEL_HEADERS)))
                      THEN REFRACTIVE_MAP_COORDS ELSE SELECTABLE_MAP_COORDS) THEN 4
    ELSE 0

\* C15: the dictionary process_image returns has success = True exactly when
\* both maps are set; the stages run in the order read, dimension check,
\* header match, coordinate lookup, crop, clean; and a call whose file cannot
\* be read, whose shape is unsupported, whose header is not matched or whose
\* coordinates are missing returns from the first such stage with success
\* False, a non-empty message, both maps None and empty output_paths, having
\* run no later stage and written no file.
C15_SuccessIffMapsAndEarlyReturn ==
    /\ stage # "none" => ran = SubSeq(StageOrder, 1, Len(ran))
    /\ ProcReturned =>
          /\ proc_result.success <=>
                 (proc_result.axial_map_full # None /\ proc_result.axial_map_224 # None)
          /\ proc_result.success <=> FirstFailure = 0
          /\ ~ proc_result.success =>
                 /\ ran = SubSeq(StageOrder, 1, FirstFailure)
                 /\ proc_result.message # ""
                 /\ proc_result.axial_map_full = None /\ proc_result.axial_map_224 = None
                 /\ proc_result.output_paths = {}
                 /\ files = {}

\* a call asked to save both maps that returned from the header match, its
\* shape supported and its header text matched by no header
C15_Witness ==
    /\ ProcReturned
    /\ request.output_dir # "" /\ request.save_full /\ request.save_standardized
    /\ proc_result.dimensions # None
    /\ proc_result.message = "Could not identify image header/type"
    /\ ran = <<"read", "dimensions", "header">>

\* C16: for every supported dimension and every header match_header can
\* return, get_axial_map_coordinates returns an entry and never None, so a
\* call of process_image that gets as far as the coordinate lookup does not
\* return the 'No coordinates defined for dimensions' failure.
C16_CoordinatesDefined ==
    (stage # "none" /\ Len(ran) >= 4) =>
        /\ map_coords # None
        /\ proc_result.message # "No coordinates defined for dimensions: " \o TupleStr(The(dimensions))

====
